---- MODULE Spec2Model ----
(***************************************************************************)
(* Model of the Hobbly admin application (hobbly-app):                     *)
(*   - the Authorization Gate   (components/common/ProtectedRoute)         *)
(*   - the Activity Directory   (api/activities.api.ts over mockActivities)*)
(*   - the Activities page      (pages/Activities/Activities.tsx)          *)
(* Three specifications share the variables: SpecGate exercises the gate   *)
(* as a function of the context value and the route props, SpecDirectory   *)
(* the directory operations on the in-memory collection, SpecPage the      *)
(* page handlers that issue directory calls for the signed-in identity.    *)
(***************************************************************************)
EXTENDS Integers, Sequences, FiniteSets, TLC

VARIABLES
  user,            \* AuthProvider state: auth user id, or NoUser
  profile,         \* AuthProvider state: profile record, or NoProfile
  loading,         \* AuthProvider state: loading flag
  requiredRole,    \* ProtectedRoute prop (NoRole when not given)
  requiredRoles,   \* ProtectedRoute prop (set of role strings)
  gateResult,      \* what the last ProtectedRoute render returned
  mockActivities,  \* the in-memory collection (sequence of Activity)
  now,             \* the clock read by Date.now() / new Date()
  lastResult,      \* outcome of the last completed directory call
  pending,         \* callers awaiting a directory call (page handlers, creators)
  isLoading,       \* Activities page state
  error,           \* Activities page state
  activities,      \* Activities page state: ids of the displayed rows
  totalPages,      \* Activities page state
  currentPage,     \* Activities page state
  authMounted,     \* AuthProvider: its effect has run (listener subscribed)
  authCalls,       \* AuthProvider: calls awaiting the provider, as AuthCall records
  profileFetches,  \* AuthProvider: user ids whose getUserProfile is awaited
  lastAuth,        \* outcome of the last completed AuthProvider call
  submitted,       \* Login / SignUp: the form last submitted and its errors
  paginationView,  \* Pagination: its props and what it rendered
  sentQuery        \* getActivities: the filters it was given and the query it sent

gateVars == <<requiredRole, requiredRoles, gateResult>>
authVars == <<user, profile, loading>>
dirVars  == <<mockActivities, now, lastResult>>
pageVars == <<pending, isLoading, error, activities, totalPages, currentPage>>
sessVars == <<authMounted, authCalls, profileFetches, lastAuth>>
formVars == <<submitted>>
viewVars == <<paginationView>>
netVars  == <<sentQuery>>
vars     == <<user, profile, loading, requiredRole, requiredRoles, gateResult,
              mockActivities, now, lastResult,
              pending, isLoading, error, activities, totalPages, currentPage,
              authMounted, authCalls, profileFetches, lastAuth,
              submitted, paginationView, sentQuery>>

(***************************************************************************)
(* Roles and identities                                                    *)
(***************************************************************************)
NoUser    == "null"
NoProfile == [id |-> "", role |-> "null"]
NoRole    == ""

\* UserRole enum values as they are compared in ProtectedRoute.
Roles == {"user", "organizer", "admin"}

\* Role strings a prop or a profile may carry: the enum values and
\* differently-cased spellings of them.
RoleStrings == Roles \cup {"Admin", "Organizer"}

\* String.prototype.toLowerCase on the role strings above.
toLowerCase(s) ==
  CASE s = "Admin"     -> "admin"
    [] s = "Organizer" -> "organizer"
    [] OTHER           -> s

\* mockUsers: id and role of the two users of the user table.
mockUsers ==
  { [id |-> "user-1", role |-> "organizer"],
    [id |-> "user-2", role |-> "admin"] }

\* MOCK_USER / MOCK_PROFILE installed by initAuth.
MOCK_USER    == "user-1"
MOCK_PROFILE == [id |-> "user-1", role |-> "organizer"]

\* Context value `user` of AuthProvider: null unless a profile is set;
\* the id comes from the auth user (user?.id || ''), the role from the profile.
ContextUser(u, p) ==
  IF p = NoProfile
  THEN NoProfile
  ELSE [id |-> IF u = NoUser THEN "" ELSE u, role |-> p.role]

\* The identity useAuth() exposes in the current state.
identity == ContextUser(user, profile)

(***************************************************************************)
(* Authorization Gate                                                      *)
(***************************************************************************)
\* requiredRole ? [requiredRole] : requiredRoles || []
rolesToCheck(rRole, rRoles) ==
  IF rRole # NoRole THEN {rRole} ELSE rRoles

\* The callback of rolesToCheck.some(...), in three faulty variants and as coded.
hasRoleFor_NoAdmin(userRole, role) ==
  LET requiredRoleNormalized == toLowerCase(role) IN
  IF userRole = "organizer"
     /\ (requiredRoleNormalized = "organizer" \/ requiredRoleNormalized = "user")
  THEN TRUE
  ELSE userRole = requiredRoleNormalized

hasRoleFor_Swapped(userRole, role) ==
  LET requiredRoleNormalized == toLowerCase(role) IN
  IF userRole = "admin" THEN TRUE
  ELSE IF requiredRoleNormalized = "organizer"
          /\ (userRole = "organizer" \/ userRole = "user")
       THEN TRUE
  ELSE userRole = requiredRoleNormalized

hasRoleFor_DropUser(userRole, role) ==
  LET requiredRoleNormalized == toLowerCase(role) IN
  IF userRole = "admin" THEN TRUE
  ELSE IF userRole = "organizer" /\ requiredRoleNormalized = "organizer" THEN TRUE
  ELSE userRole = requiredRoleNormalized

hasRoleFor(userRole, role) ==
  LET requiredRoleNormalized == toLowerCase(role) IN
  IF userRole = "admin" THEN TRUE
  ELSE IF userRole = "organizer"
          /\ (requiredRoleNormalized = "organizer" \/ requiredRoleNormalized = "user")
       THEN TRUE
  ELSE userRole = requiredRoleNormalized

hasRequiredRole_Every(ctxUser, roles) ==
  \A role \in roles : hasRoleFor(toLowerCase(ctxUser.role), role)

hasRequiredRole(ctxUser, roles) ==
  \E role \in roles : hasRoleFor(toLowerCase(ctxUser.role), role)

\* ProtectedRoute with the authorization test applied before the loading test.
ProtectedRoute_LoadingLast(ctxUser, ctxLoading, rRole, rRoles) ==
  IF ctxUser = NoProfile THEN "RedirectToLogin"
  ELSE IF rolesToCheck(rRole, rRoles) # {}
          /\ ~hasRequiredRole(ctxUser, rolesToCheck(rRole, rRoles))
       THEN "RedirectToUnauthorized"
  ELSE IF ctxLoading THEN "Pending"
  ELSE "Render"

\* ProtectedRoute that lets an absent identity through to the role test.
ProtectedRoute_NoLoginCheck(ctxUser, ctxLoading, rRole, rRoles) ==
  IF ctxLoading THEN "Pending"
  ELSE IF rolesToCheck(rRole, rRoles) # {}
          /\ ~hasRequiredRole(ctxUser, rolesToCheck(rRole, rRoles))
       THEN "RedirectToUnauthorized"
  ELSE "Render"

\* The component: Pending (spinner), RedirectToLogin (Navigate to redirectTo,
\* '/login' by default), RedirectToUnauthorized (Navigate to '/unauthorized')
\* or Render (the children).
ProtectedRoute(ctxUser, ctxLoading, rRole, rRoles) ==
  IF ctxLoading THEN "Pending"
  ELSE IF ctxUser = NoProfile THEN "RedirectToLogin"
  ELSE IF rolesToCheck(rRole, rRoles) # {}
          /\ ~hasRequiredRole(ctxUser, rolesToCheck(rRole, rRoles))
       THEN "RedirectToUnauthorized"
  ELSE "Render"

(***************************************************************************)
(* Initial state of the three components                                   *)
(***************************************************************************)
\* useState initial values of AuthProvider.
InitAuth ==
  /\ user = NoUser
  /\ profile = NoProfile
  /\ loading = TRUE

\* Route props as App.tsx passes them: requiredRole="organizer".
InitRoute ==
  /\ requiredRole = "organizer"
  /\ requiredRoles = {}
  /\ gateResult = "NotRendered"

\* No AuthProvider call has completed yet.
NoAuthResult == [op |-> "none", err |-> ""]

\* AuthProvider with its effect not yet run and nothing in flight.
InitSessionIdle ==
  /\ authMounted = FALSE
  /\ authCalls = << >>
  /\ profileFetches = {}
  /\ lastAuth = NoAuthResult

\* No form has been submitted.
NoSubmission == [form |-> "none", data |-> << >>, errors |-> {}]

\* Pagination not rendered.
NoView ==
  [currentPage |-> 0, totalPages |-> 0, maxPageButtons |-> 0, pages |-> << >>,
   previousDisabled |-> TRUE, nextDisabled |-> TRUE]

\* getActivities has sent nothing.
NoQuery == [filters |-> << >>, params |-> << >>]

InitWidgetsIdle ==
  /\ submitted = NoSubmission
  /\ paginationView = NoView
  /\ sentQuery = NoQuery

(***************************************************************************)
(* Activity Directory: the collection and the bodies of the API functions  *)
(* (each body runs in one piece once its simulateApiDelay has elapsed)     *)
(***************************************************************************)
\* An Activity: id n stands for the string "activity-n"; createdAt and
\* updatedAt are clock readings; title stands for the form-supplied fields.
Activity(id, userId, title, isDeleted, createdAt, updatedAt) ==
  [id |-> id, userId |-> userId, title |-> title, isDeleted |-> isDeleted,
   createdAt |-> createdAt, updatedAt |-> updatedAt]

NoActivity == Activity(0, "", "", FALSE, 0, 0)

\* mockActivities as mockData.ts declares it: five records in ascending
\* creation order, activity-4 owned by the admin user-2, the others by user-1.
InitialActivities ==
  << Activity(1, "user-1", "t1", FALSE, 1, 1),
     Activity(2, "user-1", "t2", FALSE, 2, 2),
     Activity(3, "user-1", "t3", FALSE, 3, 3),
     Activity(4, "user-2", "t4", FALSE, 4, 4),
     Activity(5, "user-1", "t5", FALSE, 5, 5) >>

Min(a, b) == IF a < b THEN a ELSE b
Max(a, b) == IF a > b THEN a ELSE b

\* Array.prototype.findIndex(a => a.id === id), 1-based; 0 stands for -1.
findIndex(acts, id) ==
  IF \E i \in 1..Len(acts) : acts[i].id = id
  THEN CHOOSE i \in 1..Len(acts) :
         /\ acts[i].id = id
         /\ \A j \in 1..(i - 1) : acts[j].id # id
  ELSE 0

\* slice that also takes the element at index `to`.
slice_Inclusive(acts, from, to) ==
  SubSeq(acts, from + 1, Min(to + 1, Len(acts)))

\* Array.prototype.slice(from, to) with 0-based from and exclusive to.
slice(acts, from, to) ==
  SubSeq(acts, from + 1, Min(to, Len(acts)))

\* Math.ceil(a / b) for a >= 0, b >= 1.
ceilDiv(a, b) == (a + b - 1) \div b

\* The pagination object with the page count rounded down.
paginationOf_Floor(page, limit, totalCount) ==
  LET tp == totalCount \div limit IN
  [page |-> page, limit |-> limit, total |-> totalCount, totalPages |-> tp,
   hasNext |-> page < tp, hasPrevious |-> page > 1]

\* The pagination object both listing functions return.
paginationOf(page, limit, totalCount) ==
  LET tp == ceilDiv(totalCount, limit) IN
  [page |-> page, limit |-> limit, total |-> totalCount, totalPages |-> tp,
   hasNext |-> page < tp, hasPrevious |-> page > 1]

NoPagination == paginationOf(0, 1, 0)

\* What a directory call produces: err = "" on success, the new collection,
\* and the returned value (a list result or a single Activity).
Outcome(err, acts, items, pagination, value) ==
  [err |-> err, acts |-> acts, items |-> items, pagination |-> pagination,
   value |-> value]

Fail(err, acts) == Outcome(err, acts, << >>, NoPagination, NoActivity)

\* getActivityById (mock branch)
getActivityById(acts, id) ==
  LET idx == findIndex(acts, id) IN
  IF idx = 0 THEN Fail("NotFound", acts)
  ELSE Outcome("", acts, << >>, NoPagination, acts[idx])

\* getUserActivities that lists every record, whoever owns it.
getUserActivities_NoFilter(acts, organizerId, page, limit) ==
  LET offset == (page - 1) * limit
  IN Outcome("", acts, slice(acts, offset, offset + limit),
             paginationOf(page, limit, Len(acts)), NoActivity)

\* getUserActivities (mock branch)
getUserActivities(acts, organizerId, page, limit) ==
  LET mine(a) == a.userId = organizerId \/ organizerId = "current-user"
      filtered == SelectSeq(acts, mine)
      userActivities == IF Len(filtered) = 0 THEN acts ELSE filtered
      offset == (page - 1) * limit
  IN Outcome("", acts, slice(userActivities, offset, offset + limit),
             paginationOf(page, limit, Len(userActivities)), NoActivity)

\* createActivity (mock branch): id from Date.now(), timestamps from new Date().
createActivity(acts, title, organizerId, t) ==
  LET newActivity == Activity(t, organizerId, title, FALSE, t, t)
  IN Outcome("", Append(acts, newActivity), << >>, NoPagination, newActivity)

\* updateActivity that tests the owner only after it has stored the new fields.
updateActivity_CheckAfter(acts, id, title, organizerId, t) ==
  LET activityIndex == findIndex(acts, id)
      updatedActivity == [acts[activityIndex] EXCEPT !.title = title, !.updatedAt = t]
      stored == [acts EXCEPT ![activityIndex] = updatedActivity]
  IN
  IF activityIndex = 0 THEN Fail("NotFound", acts)
  ELSE IF acts[activityIndex].userId # organizerId THEN Fail("PermissionDenied", stored)
  ELSE Outcome("", stored, << >>, NoPagination, updatedActivity)

\* updateActivity that keeps the fields of a record already updated once.
updateActivity_FirstWins(acts, id, title, organizerId, t) ==
  LET activityIndex == findIndex(acts, id) IN
  IF activityIndex = 0 THEN Fail("NotFound", acts)
  ELSE IF acts[activityIndex].userId # organizerId THEN Fail("PermissionDenied", acts)
  ELSE LET existingActivity == acts[activityIndex]
           updatedActivity ==
             IF existingActivity.updatedAt > existingActivity.createdAt
             THEN [existingActivity EXCEPT !.updatedAt = t]
             ELSE [existingActivity EXCEPT !.title = title, !.updatedAt = t]
       IN Outcome("", [acts EXCEPT ![activityIndex] = updatedActivity],
                  << >>, NoPagination, updatedActivity)

\* updateActivity that brings a deleted record back.
updateActivity_Undelete(acts, id, title, organizerId, t) ==
  LET activityIndex == findIndex(acts, id) IN
  IF activityIndex = 0 THEN Fail("NotFound", acts)
  ELSE IF acts[activityIndex].userId # organizerId THEN Fail("PermissionDenied", acts)
  ELSE LET updatedActivity ==
             [acts[activityIndex] EXCEPT !.title = title, !.updatedAt = t,
                                         !.isDeleted = FALSE]
       IN Outcome("", [acts EXCEPT ![activityIndex] = updatedActivity],
                  << >>, NoPagination, updatedActivity)

\* updateActivity (mock branch)
updateActivity(acts, id, title, organizerId, t) ==
  LET activityIndex == findIndex(acts, id) IN
  IF activityIndex = 0 THEN Fail("NotFound", acts)
  ELSE IF acts[activityIndex].userId # organizerId THEN Fail("PermissionDenied", acts)
  ELSE LET updatedActivity ==
             [acts[activityIndex] EXCEPT !.title = title, !.updatedAt = t]
       IN Outcome("", [acts EXCEPT ![activityIndex] = updatedActivity],
                  << >>, NoPagination, updatedActivity)

\* deleteActivity that rejects a record that is already deleted.
deleteActivity_RejectDeleted(acts, id, organizerId, t) ==
  LET activityIndex == findIndex(acts, id) IN
  IF activityIndex = 0 THEN Fail("NotFound", acts)
  ELSE IF acts[activityIndex].userId # organizerId /\ organizerId # "admin-user"
       THEN Fail("PermissionDenied", acts)
  ELSE IF acts[activityIndex].isDeleted THEN Fail("NotFound", acts)
  ELSE Outcome("", [acts EXCEPT ![activityIndex] =
                      [@ EXCEPT !.isDeleted = TRUE, !.updatedAt = t]],
               << >>, NoPagination, NoActivity)

\* deleteActivity that marks the record before it tests the permission.
deleteActivity_CheckAfter(acts, id, organizerId, t) ==
  LET activityIndex == findIndex(acts, id)
      marked == [acts EXCEPT ![activityIndex] =
                   [@ EXCEPT !.isDeleted = TRUE, !.updatedAt = t]]
  IN
  IF activityIndex = 0 THEN Fail("NotFound", acts)
  ELSE IF acts[activityIndex].userId # organizerId /\ organizerId # "admin-user"
       THEN Fail("PermissionDenied", marked)
  ELSE Outcome("", marked, << >>, NoPagination, NoActivity)

\* deleteActivity (mock branch): the soft delete.
deleteActivity(acts, id, organizerId, t) ==
  LET activityIndex == findIndex(acts, id) IN
  IF activityIndex = 0 THEN Fail("NotFound", acts)
  ELSE IF acts[activityIndex].userId # organizerId /\ organizerId # "admin-user"
       THEN Fail("PermissionDenied", acts)
  ELSE Outcome("", [acts EXCEPT ![activityIndex] =
                      [@ EXCEPT !.isDeleted = TRUE, !.updatedAt = t]],
               << >>, NoPagination, NoActivity)

(***************************************************************************)
(* list: getActivities sends its query to the remote table                 *)
(***************************************************************************)
\* The query string getActivities builds when called with no filters.
getActivitiesQuery(page, limit) ==
  [is_deleted |-> "eq.false", order |-> "created_at.desc",
   limit |-> limit, offset |-> (page - 1) * limit]

\* Rows ordered by created_at descending (insertion order among equals).
RECURSIVE orderByCreatedDesc(_)
orderByCreatedDesc(rows) ==
  IF rows = << >> THEN << >>
  ELSE LET i == CHOOSE k \in 1..Len(rows) :
                  /\ \A j \in 1..Len(rows) : rows[j].createdAt <= rows[k].createdAt
                  /\ \A j \in 1..(k - 1) : rows[j].createdAt < rows[k].createdAt
           rest == SubSeq(rows, 1, i - 1) \o SubSeq(rows, i + 1, Len(rows))
       IN <<rows[i]>> \o orderByCreatedDesc(rest)

\* The remote table answering a query: the rows matching is_deleted, ordered,
\* cut to offset/limit, with the matching count as the Content-Range total.
apiClientGet(rows, q) ==
  LET live(a) == ~a.isDeleted
      matching == IF q.is_deleted = "eq.false" THEN SelectSeq(rows, live) ELSE rows
      ordered == IF q.order = "created_at.desc"
                 THEN orderByCreatedDesc(matching) ELSE matching
  IN [data |-> slice(ordered, q.offset, q.offset + q.limit),
      total |-> Len(matching)]

\* transformRawActivity: the entity built from a row (isDeleted is set false).
transformRawActivity(raw) == [raw EXCEPT !.isDeleted = FALSE]

\* getActivities
getActivities(rows, page, limit) ==
  LET response == apiClientGet(rows, getActivitiesQuery(page, limit))
      acts == [i \in 1..Len(response.data) |-> transformRawActivity(response.data[i])]
  IN Outcome("", rows, acts, paginationOf(page, limit, response.total), NoActivity)

(***************************************************************************)
(* SpecDirectory: directory calls completing in any order                  *)
(***************************************************************************)
MaxTime    == 7    \* the clock stops advancing here
MaxCreated == 1    \* records created during a session

FormTitles  == {"a", "b"}
CallerIds   == {"user-1", "user-2", "user-3", "admin-user"}
OwnerIds    == {"user-1", "user-3"}
ListOwners  == {"user-1", "user-3", "current-user"}
PageLimits  == {2, 5}
Pages       == {1, 2}
NewTitles   == {"a"}

\* Ids a call may name: one that no record has (0), that of the first initial
\* record (1), and the one createActivity assigns when the clock reads 6.
TargetIds == {0, 1, 6}

ids(acts) == [i \in 1..Len(acts) |-> acts[i].id]

\* The record of the last completed call.
Result(op, id, organizerId, wasDeleted, out) ==
  [op |-> op, id |-> id, organizerId |-> organizerId, wasDeleted |-> wasDeleted,
   err |-> out.err, items |-> ids(out.items), pagination |-> out.pagination,
   value |-> out.value]

NoResult == Result("none", 0, "", FALSE, Fail("", << >>))

InitCollection ==
  /\ mockActivities = InitialActivities
  /\ now = 6
  /\ lastResult = NoResult

InitPageIdle ==
  /\ pending = << >>
  /\ isLoading = TRUE
  /\ error = ""
  /\ activities = << >>
  /\ totalPages = 1
  /\ currentPage = 1

InitDirectory ==
  /\ InitAuth
  /\ InitRoute
  /\ InitCollection
  /\ InitPageIdle
  /\ InitSessionIdle
  /\ InitWidgetsIdle

\* Time passes.
Tick ==
  /\ now < MaxTime
  /\ now' = now + 1
  /\ UNCHANGED <<mockActivities, lastResult, authVars, gateVars, pageVars,
                   sessVars, formVars, viewVars, netVars>>

wasDeletedAt(acts, id) ==
  findIndex(acts, id) # 0 /\ acts[findIndex(acts, id)].isDeleted

CreateActivity ==
  \E title \in NewTitles, organizerId \in OwnerIds :
    /\ Len(mockActivities) < Len(InitialActivities) + MaxCreated
    /\ LET out == createActivity(mockActivities, title, organizerId, now) IN
         /\ mockActivities' = out.acts
         /\ lastResult' = Result("createActivity", out.value.id, organizerId, FALSE, out)
    /\ UNCHANGED <<now, authVars, gateVars, pageVars,
                   sessVars, formVars, viewVars, netVars>>

UpdateActivity ==
  \E id \in TargetIds, title \in FormTitles, organizerId \in CallerIds :
    /\ LET out == updateActivity(mockActivities, id, title, organizerId, now) IN
         /\ mockActivities' = out.acts
         /\ lastResult' = Result("updateActivity", id, organizerId,
                                 wasDeletedAt(mockActivities, id), out)
    /\ UNCHANGED <<now, authVars, gateVars, pageVars,
                   sessVars, formVars, viewVars, netVars>>

DeleteActivity ==
  \E id \in TargetIds, organizerId \in CallerIds :
    /\ LET out == deleteActivity(mockActivities, id, organizerId, now) IN
         /\ mockActivities' = out.acts
         /\ lastResult' = Result("deleteActivity", id, organizerId,
                                 wasDeletedAt(mockActivities, id), out)
    /\ UNCHANGED <<now, authVars, gateVars, pageVars,
                   sessVars, formVars, viewVars, netVars>>

GetActivityById ==
  \E id \in TargetIds :
    /\ LET out == getActivityById(mockActivities, id) IN
         lastResult' = Result("getActivityById", id, "",
                              wasDeletedAt(mockActivities, id), out)
    /\ UNCHANGED <<mockActivities, now, authVars, gateVars, pageVars,
                   sessVars, formVars, viewVars, netVars>>

GetUserActivities ==
  \E organizerId \in ListOwners, page \in Pages, limit \in PageLimits :
    /\ LET out == getUserActivities(mockActivities, organizerId, page, limit) IN
         lastResult' = Result("getUserActivities", 0, organizerId, FALSE, out)
    /\ UNCHANGED <<mockActivities, now, authVars, gateVars, pageVars,
                   sessVars, formVars, viewVars, netVars>>

GetActivities ==
  \E page \in Pages, limit \in PageLimits :
    /\ LET out == getActivities(mockActivities, page, limit) IN
         lastResult' = Result("getActivities", 0, "", FALSE, out)
    /\ UNCHANGED <<mockActivities, now, authVars, gateVars, pageVars,
                   sessVars, formVars, viewVars, netVars>>

NextDirectory ==
  \/ Tick
  \/ CreateActivity
  \/ UpdateActivity
  \/ DeleteActivity
  \/ GetActivityById
  \/ GetUserActivities
  \/ GetActivities

SpecDirectory == InitDirectory /\ [][NextDirectory]_vars

(***************************************************************************)
(* SpecGate: the gate applied to every context value and every props       *)
(***************************************************************************)
\* The paths App.tsx serves under '/admin/*', all children of one gate.
AdminPaths ==
  {"/admin/dashboard", "/admin/activities", "/admin/activities/new",
   "/admin/users", "/admin/trash", "/admin/personal-info"}

\* The props of the gate that App.tsx puts in front of a path under
\* '/admin/*': requiredRole="organizer" for every one of them.
RouteProps(path) ==
  IF path \in AdminPaths
  THEN [requiredRole |-> "organizer", requiredRoles |-> {}]
  ELSE [requiredRole |-> NoRole, requiredRoles |-> {}]

\* Profiles the provider may hold for the auth user "user-1".
GateProfiles == {NoProfile} \cup {[id |-> "user-1", role |-> r] : r \in RoleStrings}

InitGate ==
  /\ InitAuth
  /\ requiredRole \in {NoRole} \cup Roles
  /\ requiredRoles \in SUBSET RoleStrings
  /\ gateResult = "NotRendered"
  /\ InitCollection
  /\ InitPageIdle
  /\ InitSessionIdle
  /\ InitWidgetsIdle

\* The provider publishes a context value and the gate renders under it.
RenderGate ==
  \E u \in {NoUser, "user-1"}, p \in GateProfiles, l \in BOOLEAN :
    /\ user' = u
    /\ profile' = p
    /\ loading' = l
    /\ gateResult' = ProtectedRoute(ContextUser(u, p), l, requiredRole, requiredRoles)
    /\ UNCHANGED <<requiredRole, requiredRoles, dirVars, pageVars,
                   sessVars, formVars, viewVars, netVars>>

NextGate == RenderGate

SpecGate == InitGate /\ [][NextGate]_vars

(***************************************************************************)
(* Activities page: handlers, and the requests they leave in flight        *)
(***************************************************************************)
MaxPending == 2    \* page requests in flight at once

\* The page asks for five rows per page.
PageSize == 5

\* maxPageButtons as the page passes it to Pagination.
maxPageButtons == 5

\* Sessions under which the /admin/* gate renders the page: the mock
\* organizer installed by initAuth, the admin of the user table, and an
\* organizer who signed up (signUp registers role organizer) and owns no record.
PageSessions ==
  { [user |-> u.id, profile |-> [id |-> u.id, role |-> u.role]] :
      u \in mockUsers \cup {[id |-> "user-3", role |-> "organizer"]} }

\* Ids handleDeleteActivity may be called with: a record of user-1 and one of user-2.
PageTargetIds == {1, 4}

\* A request a handler awaits: kind is "load" (loadActivities from the effect),
\* "delete" (deleteActivity of handleDeleteActivity) or "reload" (the
\* loadActivities that handleDeleteActivity awaits next); userId and page are
\* the values the handler's closure captured.
Request(kind, id, userId, page) ==
  [kind |-> kind, id |-> id, userId |-> userId, page |-> page]

without(seq, i) == SubSeq(seq, 1, i - 1) \o SubSeq(seq, i + 1, Len(seq))

\* getPageNumbers that never moves the start back when the window is cut short.
getPageNumbers_NoShift(current, total, maxButtons) ==
  LET halfRange == maxButtons \div 2
      start == Max(1, current - halfRange)
      end == Min(total, start + maxButtons - 1)
  IN [i \in 1..Max(0, end - start + 1) |-> start + i - 1]

\* Pagination.getPageNumbers
getPageNumbers(current, total, maxButtons) ==
  LET halfRange == maxButtons \div 2
      start0 == Max(1, current - halfRange)
      end == Min(total, start0 + maxButtons - 1)
      start == IF end - start0 + 1 < maxButtons
               THEN Max(1, end - maxButtons + 1) ELSE start0
  IN [i \in 1..Max(0, end - start + 1) |-> start + i - 1]

\* The controls of a Pagination whose Next button is never disabled.
pageControls_NextEnabled(current, total) ==
  (IF current = 1 THEN {} ELSE {current - 1})
  \cup {getPageNumbers(current, total, maxPageButtons)[i] :
          i \in 1..Len(getPageNumbers(current, total, maxPageButtons))}
  \cup {current + 1}

\* Pages the enabled controls of Pagination pass to onPageChange.
pageControls(current, total) ==
  (IF current = 1 THEN {} ELSE {current - 1})
  \cup {getPageNumbers(current, total, maxPageButtons)[i] :
          i \in 1..Len(getPageNumbers(current, total, maxPageButtons))}
  \cup (IF current = total THEN {} ELSE {current + 1})

\* The page just mounted under a session: useState values, and the first
\* loadActivities issued by the effect.
InitPage ==
  /\ \E s \in PageSessions :
       /\ user = s.user
       /\ profile = s.profile
       /\ pending = <<Request("load", 0, s.user, 1)>>
  /\ loading = FALSE
  /\ InitRoute
  /\ InitCollection
  /\ isLoading = TRUE
  /\ error = ""
  /\ activities = << >>
  /\ totalPages = 1
  /\ currentPage = 1
  /\ authMounted = TRUE
  /\ authCalls = << >>
  /\ profileFetches = {}
  /\ lastAuth = NoAuthResult
  /\ InitWidgetsIdle

\* handlePageChange from a Pagination control, and the effect that reloads.
HandlePageChange ==
  \E page \in pageControls(currentPage, totalPages) :
    /\ ~isLoading /\ Len(activities) > 0
    /\ page # currentPage
    /\ identity.id # ""
    /\ Len(pending) < MaxPending
    /\ currentPage' = page
    /\ isLoading' = TRUE
    /\ error' = ""
    /\ pending' = Append(pending, Request("load", 0, identity.id, page))
    /\ UNCHANGED <<activities, totalPages, dirVars, authVars, gateVars,
                   sessVars, formVars, viewVars, netVars>>

\* handleSearch from the Header with a new query: the page is reset to 1 and
\* the effect (searchQuery is one of its dependencies) loads again.
HandleSearch ==
  /\ identity.id # ""
  /\ Len(pending) < MaxPending
  /\ currentPage' = 1
  /\ isLoading' = TRUE
  /\ error' = ""
  /\ pending' = Append(pending, Request("load", 0, identity.id, 1))
  /\ UNCHANGED <<activities, totalPages, dirVars, authVars, gateVars,
                 sessVars, formVars, viewVars, netVars>>

\* handleDeleteActivity up to its first await (the confirm was accepted).
HandleDeleteActivity ==
  \E activityId \in PageTargetIds :
    /\ identity.id # ""
    /\ Len(pending) < MaxPending
    /\ isLoading' = TRUE
    /\ pending' = Append(pending, Request("delete", activityId, identity.id, currentPage))
    /\ UNCHANGED <<error, activities, totalPages, currentPage,
                   dirVars, authVars, gateVars,
                   sessVars, formVars, viewVars, netVars>>

\* getUserActivities answers a loadActivities: rows and totalPages are set and
\* the finally blocks clear isLoading.
CompleteLoad ==
  \E i \in 1..Len(pending) :
    /\ pending[i].kind \in {"load", "reload"}
    /\ LET out == getUserActivities(mockActivities, pending[i].userId,
                                    pending[i].page, PageSize) IN
         /\ activities' = ids(out.items)
         /\ totalPages' = out.pagination.totalPages
         /\ lastResult' = Result("getUserActivities", 0, pending[i].userId, FALSE, out)
    /\ isLoading' = FALSE
    /\ pending' = without(pending, i)
    /\ UNCHANGED <<error, currentPage, mockActivities, now, authVars, gateVars,
                   sessVars, formVars, viewVars, netVars>>

\* deleteActivity answers handleDeleteActivity: on an error the catch sets the
\* message and the finally clears isLoading; otherwise loadActivities starts.
CompleteDelete ==
  \E i \in 1..Len(pending) :
    /\ pending[i].kind = "delete"
    /\ LET out == deleteActivity(mockActivities, pending[i].id, pending[i].userId, now) IN
         /\ mockActivities' = out.acts
         /\ lastResult' = Result("deleteActivity", pending[i].id, pending[i].userId,
                                 wasDeletedAt(mockActivities, pending[i].id), out)
         /\ IF out.err # ""
            THEN /\ error' = out.err
                 /\ isLoading' = FALSE
                 /\ pending' = without(pending, i)
            ELSE /\ error' = ""
                 /\ isLoading' = TRUE
                 /\ pending' = [pending EXCEPT ![i] =
                                  Request("reload", @.id, @.userId, @.page)]
    /\ UNCHANGED <<activities, totalPages, currentPage, now, authVars, gateVars,
                   sessVars, formVars, viewVars, netVars>>

NextPage ==
  \/ Tick
  \/ CreateActivity
  \/ HandlePageChange
  \/ HandleSearch
  \/ HandleDeleteActivity
  \/ CompleteLoad
  \/ CompleteDelete

SpecPage == InitPage /\ [][NextPage]_vars

(***************************************************************************)
(* SpecListing: the two listing functions on collections of every size     *)
(***************************************************************************)
MaxRows  == 4    \* records in the listed collection
MaxPage  == 3    \* page numbers asked for
MaxLimit == 3    \* page sizes asked for

ListedOwners == {"user-1", "user-2"}

\* Collections of 0..MaxRows records with distinct ids in creation order, each
\* owned by one of two users and deleted or not.
ListedCollections ==
  UNION { { [i \in 1..n |-> Activity(i, f[i].userId, "t", f[i].isDeleted, i, i)] :
              f \in [1..n -> [userId : ListedOwners, isDeleted : BOOLEAN]] } :
          n \in 0..MaxRows }

InitListing ==
  /\ InitAuth
  /\ InitRoute
  /\ mockActivities \in ListedCollections
  /\ now = MaxRows + 1
  /\ lastResult = NoResult
  /\ InitPageIdle
  /\ InitSessionIdle
  /\ InitWidgetsIdle

\* listForOwner on any page with any page size, for an owner of records and
\* for one who owns none.
GetUserActivitiesPage ==
  \E organizerId \in ListedOwners \cup {"user-3"}, page \in 1..MaxPage, limit \in 1..MaxLimit :
    /\ LET out == getUserActivities(mockActivities, organizerId, page, limit) IN
         lastResult' = Result("getUserActivities", 0, organizerId, FALSE, out)
    /\ UNCHANGED <<mockActivities, now, authVars, gateVars, pageVars,
                   sessVars, formVars, viewVars, netVars>>

\* list on any page with any page size.
GetActivitiesPage ==
  \E page \in 1..MaxPage, limit \in 1..MaxLimit :
    /\ LET out == getActivities(mockActivities, page, limit) IN
         lastResult' = Result("getActivities", 0, "", FALSE, out)
    /\ UNCHANGED <<mockActivities, now, authVars, gateVars, pageVars,
                   sessVars, formVars, viewVars, netVars>>

NextListing ==
  \/ GetUserActivitiesPage
  \/ GetActivitiesPage

SpecListing == InitListing /\ [][NextListing]_vars

(***************************************************************************)
(* SpecCreate: createActivity calls in flight at the same time             *)
(***************************************************************************)
MaxCreateCalls == 3    \* createActivity calls made in all

\* A caller enters createActivity and awaits simulateApiDelay(1000).
CallCreateActivity ==
  \E organizerId \in OwnerIds :
    /\ Len(pending) < MaxPending
    /\ Len(mockActivities) + Len(pending) < Len(InitialActivities) + MaxCreateCalls
    /\ pending' = Append(pending, Request("create", 0, organizerId, 0))
    /\ UNCHANGED <<isLoading, error, activities, totalPages, currentPage,
                   dirVars, authVars, gateVars, sessVars, formVars, viewVars, netVars>>

\* The delay of one waiting call has elapsed: the rest of createActivity runs,
\* reading the clock for the id and the timestamps.
ResumeCreateActivity ==
  \E i \in 1..Len(pending), title \in NewTitles :
    /\ pending[i].kind = "create"
    /\ LET out == createActivity(mockActivities, title, pending[i].userId, now) IN
         /\ mockActivities' = out.acts
         /\ lastResult' = Result("createActivity", out.value.id, pending[i].userId,
                                 FALSE, out)
    /\ pending' = without(pending, i)
    /\ UNCHANGED <<now, isLoading, error, activities, totalPages, currentPage,
                   authVars, gateVars, sessVars, formVars, viewVars, netVars>>

NextCreate ==
  \/ Tick
  \/ CallCreateActivity
  \/ ResumeCreateActivity

SpecCreate == InitDirectory /\ [][NextCreate]_vars

(***************************************************************************)
(* Session Store: AuthProvider, its effect, its listener and its calls     *)
(***************************************************************************)
MaxAuthCalls == 2    \* AuthProvider calls awaiting the provider at once

\* Accounts the auth provider knows, with the role of their profile row: the
\* users of the user table, and the organizer account that signUp registers.
ProviderAccounts == mockUsers \cup {[id |-> "user-3", role |-> "organizer"]}

\* The profile row of an account.
profileRow(userId) == CHOOSE a \in ProviderAccounts : a.id = userId

\* The callback given to authAPI.onAuthStateChange, applied to the user of
\* the session (NoUser for a null session): the state it sets, and the
\* getUserProfile it leaves awaited.
onAuthStateChange(sessionUser, p, fetches) ==
  IF sessionUser # NoUser
  THEN [user |-> sessionUser, profile |-> p, loading |-> FALSE,
        fetches |-> fetches \cup {sessionUser}]
  ELSE [user |-> NoUser, profile |-> NoProfile, loading |-> FALSE,
        fetches |-> fetches]

\* The effect of AuthProvider. Its dependencies are objects rebuilt by every
\* render, so it runs after every render: initAuth arms the one-second timer
\* and its finally clears loading; the listener is subscribed.
AuthEffect ==
  /\ authMounted' = TRUE
  /\ loading' = FALSE
  /\ UNCHANGED <<user, profile, authCalls, profileFetches, lastAuth,
                 gateVars, dirVars, pageVars, formVars, viewVars, netVars>>

\* A timer armed by initAuth elapses and installs the mock user and profile
\* (the render this causes arms the next timer).
InitAuthTimeout ==
  /\ authMounted
  /\ user' = MOCK_USER
  /\ profile' = MOCK_PROFILE
  /\ loading' = FALSE
  /\ UNCHANGED <<sessVars, gateVars, dirVars, pageVars, formVars, viewVars, netVars>>

\* A call awaiting the provider: the function that made it and the user id
\* it passed on (NoUser for signIn, signUp and signOut, which pass none).
AuthCall(op, userId) == [op |-> op, userId |-> userId]

\* signIn, signUp and signOut up to their await: setLoading(true), and the
\* provider call is in flight.
BeginAuthCall(op) ==
  /\ authMounted
  /\ Len(authCalls) < MaxAuthCalls
  /\ loading' = TRUE
  /\ authCalls' = Append(authCalls, AuthCall(op, NoUser))
  /\ UNCHANGED <<user, profile, authMounted, profileFetches, lastAuth>>

\* The provider answers call i with a session for sessionUser (NoUser when it
\* opens none), the listener having been notified when notified is true, and
\* the call ends with error err: the listener runs first, then the finally.
EndAuthCall(i, notified, sessionUser, err) ==
  LET heard == IF notified
               THEN onAuthStateChange(sessionUser, profile, profileFetches)
               ELSE [user |-> user, profile |-> profile, loading |-> loading,
                     fetches |-> profileFetches]
  IN /\ user' = heard.user
     /\ profile' = heard.profile
     /\ profileFetches' = heard.fetches
     /\ loading' = FALSE
     /\ lastAuth' = [op |-> authCalls[i].op, err |-> err]
     /\ authCalls' = without(authCalls, i)
     /\ UNCHANGED authMounted

signIn ==
  /\ BeginAuthCall("signIn")
  /\ UNCHANGED <<gateVars, dirVars, pageVars, formVars, viewVars, netVars>>

\* authAPI.signIn answers: result.error (thrown on), or a session for one of
\* the accounts of the user table, announced to the listener.
SignInAnswered ==
  \E i \in 1..Len(authCalls), answer \in {NoUser} \cup {u.id : u \in mockUsers} :
    /\ authCalls[i].op = "signIn"
    /\ IF answer = NoUser
       THEN EndAuthCall(i, FALSE, NoUser, "AuthError")
       ELSE EndAuthCall(i, TRUE, answer, "")
    /\ UNCHANGED <<gateVars, dirVars, pageVars, formVars, viewVars, netVars>>

signUp ==
  /\ BeginAuthCall("signUp")
  /\ UNCHANGED <<gateVars, dirVars, pageVars, formVars, viewVars, netVars>>

\* authAPI.signUp answers: result.error, or the account registered and
\* awaiting confirmation (no session), or registered with a session.
SignUpAnswered ==
  \E i \in 1..Len(authCalls), answer \in {"error", "unconfirmed", "session"} :
    /\ authCalls[i].op = "signUp"
    /\ CASE answer = "error"       -> EndAuthCall(i, FALSE, NoUser, "AuthError")
         [] answer = "unconfirmed" -> EndAuthCall(i, FALSE, NoUser, "")
         [] answer = "session"     -> EndAuthCall(i, TRUE, "user-3", "")
    /\ UNCHANGED <<gateVars, dirVars, pageVars, formVars, viewVars, netVars>>

signOut ==
  /\ BeginAuthCall("signOut")
  /\ UNCHANGED <<gateVars, dirVars, pageVars, formVars, viewVars, netVars>>

\* authAPI.signOut answers {error}: with an error the session stays and no
\* event is sent; without, the listener hears the null session. The store
\* does not read the answer, so the call ends without an error either way.
SignOutAnswered ==
  \E i \in 1..Len(authCalls), signedOut \in BOOLEAN :
    /\ authCalls[i].op = "signOut"
    /\ EndAuthCall(i, signedOut, NoUser, "")
    /\ UNCHANGED <<gateVars, dirVars, pageVars, formVars, viewVars, netVars>>

\* A getUserProfile started by the listener resolves, to the profile row or
\* to null (its error branch), and setProfile stores it.
GetUserProfileAnswered ==
  \E userId \in profileFetches :
  \E row \in {NoProfile, [id |-> userId, role |-> profileRow(userId).role]} :
    /\ profile' = row
    /\ profileFetches' = profileFetches \ {userId}
    /\ UNCHANGED <<user, loading, authMounted, authCalls, lastAuth,
                   gateVars, dirVars, pageVars, formVars, viewVars, netVars>>

\* updateProfile up to its await: without a user it throws at once;
\* otherwise setLoading(true), and updateUserProfile(user.id, updates) is in
\* flight.
updateProfile ==
  /\ authMounted
  /\ IF user = NoUser
     THEN /\ lastAuth' = [op |-> "updateProfile", err |-> "NoUser"]
          /\ UNCHANGED <<user, profile, loading, authMounted, authCalls,
                         profileFetches>>
     ELSE /\ Len(authCalls) < MaxAuthCalls
          /\ loading' = TRUE
          /\ authCalls' = Append(authCalls, AuthCall("updateProfile", user))
          /\ UNCHANGED <<user, profile, authMounted, profileFetches, lastAuth>>
  /\ UNCHANGED <<gateVars, dirVars, pageVars, formVars, viewVars, netVars>>

\* authAPI.updateUserProfile answers: with the updated row of the user id it
\* was given, which setProfile stores, or with an error, which is thrown on;
\* the finally clears loading.
UpdateUserProfileAnswered ==
  \E i \in 1..Len(authCalls), updated \in BOOLEAN :
    /\ authCalls[i].op = "updateProfile"
    /\ profile' = IF updated
                  THEN [id |-> authCalls[i].userId,
                        role |-> profileRow(authCalls[i].userId).role]
                  ELSE profile
    /\ loading' = FALSE
    /\ lastAuth' = [op |-> "updateProfile",
                    err |-> IF updated THEN "" ELSE "UpdateError"]
    /\ authCalls' = without(authCalls, i)
    /\ UNCHANGED <<user, authMounted, profileFetches,
                   gateVars, dirVars, pageVars, formVars, viewVars, netVars>>

\* The provider just constructed: useState values, nothing in flight.
InitSession ==
  /\ InitAuth
  /\ InitRoute
  /\ InitCollection
  /\ InitPageIdle
  /\ InitSessionIdle
  /\ InitWidgetsIdle

NextSession ==
  \/ AuthEffect
  \/ InitAuthTimeout
  \/ signIn
  \/ SignInAnswered
  \/ signUp
  \/ SignUpAnswered
  \/ signOut
  \/ SignOutAnswered
  \/ GetUserProfileAnswered
  \/ updateProfile
  \/ UpdateUserProfileAnswered

SpecSession == InitSession /\ [][NextSession]_vars

(***************************************************************************)
(* SpecPagination: the Pagination component under every props              *)
(***************************************************************************)
MaxButtons    == 6    \* largest maxPageButtons passed
MaxTotalPages == 7    \* largest totalPages passed

\* What Pagination renders for its props: the page-number buttons and the
\* disabled attribute of Previous and Next.
Pagination(current, total, maxButtons) ==
  [currentPage |-> current, totalPages |-> total, maxPageButtons |-> maxButtons,
   pages |-> getPageNumbers(current, total, maxButtons),
   previousDisabled |-> current = 1,
   nextDisabled |-> current = total]

\* The pages the enabled buttons of a rendered Pagination pass to onPageChange.
onPageChange(view) ==
  (IF view.previousDisabled THEN {} ELSE {view.currentPage - 1})
  \cup {view.pages[i] : i \in 1..Len(view.pages)}
  \cup (IF view.nextDisabled THEN {} ELSE {view.currentPage + 1})

InitPagination ==
  /\ InitAuth
  /\ InitRoute
  /\ InitCollection
  /\ InitPageIdle
  /\ InitSessionIdle
  /\ InitWidgetsIdle

\* A parent renders Pagination with a current page within 1..totalPages.
RenderPagination ==
  \E maxButtons \in 1..MaxButtons, total \in 1..MaxTotalPages :
  \E current \in 1..total :
    /\ paginationView' = Pagination(current, total, maxButtons)
    /\ UNCHANGED <<authVars, gateVars, dirVars, pageVars, sessVars, formVars, netVars>>

\* A button is clicked; the parent stores the page and renders again.
ClickPagination ==
  \E page \in onPageChange(paginationView) :
    /\ paginationView' = Pagination(page, paginationView.totalPages,
                                    paginationView.maxPageButtons)
    /\ UNCHANGED <<authVars, gateVars, dirVars, pageVars, sessVars, formVars, netVars>>

NextPagination ==
  \/ RenderPagination
  \/ ClickPagination

SpecPagination == InitPagination /\ [][NextPagination]_vars

(***************************************************************************)
(* Login and SignUp forms: field values are sequences of characters        *)
(***************************************************************************)
Digits == {"0", "1", "2", "3", "4", "5", "6", "7", "8", "9"}

\* The character class of the password rule of SignUp.validateForm.
SpecialCharacters ==
  {"!", "@", "#", "$", "%", "^", "&", "*", "(", ")", "_", "+", "-", "=", "[",
   "]", "{", "}", ";", "'", ":", "\"", "\\", "|", ",", ".", "<", ">", "/", "?"}

\* \s, for the characters a single-line input can hold.
Whitespace == {" "}

\* String.prototype.trim
RECURSIVE trim(_)
trim(s) ==
  IF s # << >> /\ Head(s) \in Whitespace THEN trim(Tail(s))
  ELSE IF s # << >> /\ s[Len(s)] \in Whitespace THEN trim(SubSeq(s, 1, Len(s) - 1))
  ELSE s

\* /^[^\s@]+@[^\s@]+\.[^\s@]+$/.test(s)
emailRegexTest(s) ==
  \E at \in 2..Len(s), dot \in 1..(Len(s) - 1) :
    /\ s[at] = "@"
    /\ dot > at + 1
    /\ s[dot] = "."
    /\ \A k \in 1..Len(s) : k # at => s[k] \notin (Whitespace \cup {"@"})

\* /\d/.test(s) and the special-character test of the password rule.
hasDigit(s) == \E k \in 1..Len(s) : s[k] \in Digits
hasSpecialCharacter(s) == \E k \in 1..Len(s) : s[k] \in SpecialCharacters

\* /^[+]?[1-9]\d{1,14}$/.test(s.replace(/[\s\-()]/g, ''))
phoneRegexTest(s) ==
  LET kept(c) == c \notin (Whitespace \cup {"-", "(", ")"})
      stripped == SelectSeq(s, kept)
      body == IF stripped # << >> /\ Head(stripped) = "+" THEN Tail(stripped) ELSE stripped
  IN /\ Len(body) \in 2..15
     /\ body[1] \in Digits \ {"0"}
     /\ \A k \in 2..Len(body) : body[k] \in Digits

\* The checks at the head of Login.handleSubmit: the error it sets, if any.
loginChecks(formData) ==
  IF formData.email = << >> \/ formData.password = << >>
  THEN {"Please fill in all fields"}
  ELSE IF ~emailRegexTest(formData.email)
  THEN {"Please enter a valid email address"}
  ELSE {}

\* SignUp.validateForm without the check of agreeToTerms.
validateForm_NoTerms(formData) ==
  (IF Len(trim(formData.fullName)) < 2 THEN {"fullName"} ELSE {})
  \cup (IF trim(formData.email) = << >> \/ ~emailRegexTest(formData.email)
        THEN {"email"} ELSE {})
  \cup (IF \/ formData.password = << >>
           \/ Len(formData.password) < 8
           \/ ~hasDigit(formData.password)
           \/ ~hasSpecialCharacter(formData.password)
        THEN {"password"} ELSE {})
  \cup (IF formData.confirmPassword = << >>
           \/ formData.password # formData.confirmPassword
        THEN {"confirmPassword"} ELSE {})

\* SignUp.validateForm: the keys of newErrors.
validateForm(formData) ==
  (IF Len(trim(formData.fullName)) < 2 THEN {"fullName"} ELSE {})
  \cup (IF trim(formData.email) = << >> \/ ~emailRegexTest(formData.email)
        THEN {"email"} ELSE {})
  \cup (IF \/ formData.password = << >>
           \/ Len(formData.password) < 8
           \/ ~hasDigit(formData.password)
           \/ ~hasSpecialCharacter(formData.password)
        THEN {"password"} ELSE {})
  \cup (IF formData.confirmPassword = << >>
           \/ formData.password # formData.confirmPassword
        THEN {"confirmPassword"} ELSE {})
  \cup (IF trim(formData.phoneNumber) # << >> /\ ~phoneRegexTest(formData.phoneNumber)
        THEN {"phoneNumber"} ELSE {})
  \cup (IF (formData.organizationAddress # << >> \/ formData.organizationNumber # << >>)
           /\ trim(formData.organizationName) = << >>
        THEN {"organizationName"} ELSE {})
  \cup (IF ~formData.agreeToTerms THEN {"agreeToTerms"} ELSE {})

\* Values typed into the forms.
GoodEmail    == <<"a", "@", "b", ".", "c">>
GoodPassword == <<"p", "a", "s", "s", "w", "o", "1", "!">>

FormEmails ==
  { << >>, <<" ">>, <<"a", "@", "b">>, <<"a", "b", ".", "c">>,
    <<" ", "a", "@", "b", ".", "c">>, GoodEmail }

FormPasswords ==
  { << >>, <<"p", "a", "s", "s", "1", "!">>,
    <<"p", "a", "s", "s", "w", "o", "r", "!">>,
    <<"p", "a", "s", "s", "w", "o", "r", "1">>, GoodPassword }

\* What the Login form may hold when it is submitted.
LoginForms == [email : FormEmails, password : {<< >>, <<"p">>, GoodPassword}]

\* A SignUp form that passes validateForm.
ValidSignUp ==
  [fullName |-> <<"A", "l">>, email |-> GoodEmail, password |-> GoodPassword,
   confirmPassword |-> GoodPassword, phoneNumber |-> << >>,
   organizationName |-> << >>, organizationAddress |-> << >>,
   organizationNumber |-> << >>, agreeToTerms |-> TRUE]

\* What the SignUp form may hold when it is submitted: the valid form, the
\* valid form with one field changed, and the form left empty.
SignUpForms ==
  {ValidSignUp}
  \cup {[ValidSignUp EXCEPT !.fullName = x] : x \in {<< >>, <<" ">>, <<"A">>}}
  \cup {[ValidSignUp EXCEPT !.email = x] : x \in FormEmails}
  \cup {[ValidSignUp EXCEPT !.password = x, !.confirmPassword = x] : x \in FormPasswords}
  \cup {[ValidSignUp EXCEPT !.confirmPassword = x] : x \in {<< >>, <<"p">>}}
  \cup {[ValidSignUp EXCEPT !.phoneNumber = x] :
          x \in {<<"+", "3", "5", "8", " ", "4", "0">>, <<"0", "4", "0">>}}
  \cup {[ValidSignUp EXCEPT !.organizationAddress = <<"x">>, !.organizationName = x] :
          x \in {<< >>, <<"o">>}}
  \cup {[ValidSignUp EXCEPT !.agreeToTerms = FALSE]}
  \cup {[fullName |-> << >>, email |-> << >>, password |-> << >>,
         confirmPassword |-> << >>, phoneNumber |-> << >>,
         organizationName |-> << >>, organizationAddress |-> << >>,
         organizationNumber |-> << >>, agreeToTerms |-> FALSE]}

\* Login.handleSubmit: the checks, then signIn of the Session Store.
LoginHandleSubmit ==
  \E formData \in LoginForms :
    /\ authMounted
    /\ submitted' = [form |-> "login", data |-> formData,
                     errors |-> loginChecks(formData)]
    /\ IF loginChecks(formData) # {}
       THEN UNCHANGED <<authVars, sessVars>>
       ELSE BeginAuthCall("signIn")
    /\ UNCHANGED <<gateVars, dirVars, pageVars, viewVars, netVars>>

\* SignUp.handleSubmit: validateForm, then signUp of the Session Store.
SignUpHandleSubmit ==
  \E formData \in SignUpForms :
    /\ authMounted
    /\ submitted' = [form |-> "signup", data |-> formData,
                     errors |-> validateForm(formData)]
    /\ IF validateForm(formData) # {}
       THEN UNCHANGED <<authVars, sessVars>>
       ELSE BeginAuthCall("signUp")
    /\ UNCHANGED <<gateVars, dirVars, pageVars, viewVars, netVars>>

NextForms ==
  \/ AuthEffect
  \/ InitAuthTimeout
  \/ LoginHandleSubmit
  \/ SignUpHandleSubmit
  \/ SignInAnswered
  \/ SignUpAnswered

SpecForms == InitSession /\ [][NextForms]_vars

(***************************************************************************)
(* SpecUpdate: updateActivity calls on one record in flight together       *)
(***************************************************************************)
\* An updateActivity call awaiting simulateApiDelay, with its arguments.
UpdateCall(id, userId, title) ==
  [kind |-> "update", id |-> id, userId |-> userId, title |-> title]

\* Callers of the overlapping updates: the owner of activity-1 and a stranger.
UpdateCallers == {"user-1", "user-3"}

\* A caller enters updateActivity for activity-1 and awaits simulateApiDelay(800).
CallUpdateActivity ==
  \E organizerId \in UpdateCallers, title \in FormTitles :
    /\ Len(pending) < MaxPending
    /\ pending' = Append(pending, UpdateCall(1, organizerId, title))
    /\ UNCHANGED <<isLoading, error, activities, totalPages, currentPage,
                   dirVars, authVars, gateVars, sessVars, formVars, viewVars, netVars>>

\* The delay of one waiting call has elapsed: the rest of updateActivity runs.
ResumeUpdateActivity ==
  \E i \in 1..Len(pending) :
    /\ pending[i].kind = "update"
    /\ LET out == updateActivity(mockActivities, pending[i].id, pending[i].title,
                                 pending[i].userId, now) IN
         /\ mockActivities' = out.acts
         /\ lastResult' = Result("updateActivity", pending[i].id, pending[i].userId,
                                 wasDeletedAt(mockActivities, pending[i].id), out)
    /\ pending' = without(pending, i)
    /\ UNCHANGED <<now, isLoading, error, activities, totalPages, currentPage,
                   authVars, gateVars, sessVars, formVars, viewVars, netVars>>

NextUpdate ==
  \/ Tick
  \/ CallUpdateActivity
  \/ ResumeUpdateActivity

SpecUpdate == InitDirectory /\ [][NextUpdate]_vars

(***************************************************************************)
(* SpecQuery: getActivities called with filters                            *)
(***************************************************************************)
\* A filter that was not supplied: '' / undefined for the string filters
\* (both falsy), undefined for the two price bounds.
NoFilter  == ""
Undefined == -1

ActivityFilters(search, type, categoryId, location, minPrice, maxPrice) ==
  [search |-> search, type |-> type, categoryId |-> categoryId,
   location |-> location, minPrice |-> minPrice, maxPrice |-> maxPrice]

\* One name=value pair of a URLSearchParams; a PostgREST value `op.arg` is
\* kept as its operator and its argument.
Param(key, op, arg) == [key |-> key, op |-> op, arg |-> arg]

has(params, key) == \E i \in 1..Len(params) : params[i].key = key

\* URLSearchParams.set: the first pair named key takes the value and any
\* other pair of that name is removed; without such a pair one is appended.
set(params, key, op, arg) ==
  IF has(params, key)
  THEN LET first == CHOOSE i \in 1..Len(params) :
                      /\ params[i].key = key
                      /\ \A j \in 1..(i - 1) : params[j].key # key
           other(p) == p.key # key
       IN SubSeq(params, 1, first - 1) \o <<Param(key, op, arg)>>
            \o SelectSeq(SubSeq(params, first + 1, Len(params)), other)
  ELSE Append(params, Param(key, op, arg))

\* The queryParams getActivities builds from its arguments.
getActivitiesParams(filters, page, limit) ==
  LET q0 == set(<< >>, "select", "", "*")
      q1 == IF filters.type # NoFilter
            THEN set(q0, "type", "eq", filters.type) ELSE q0
      q2 == IF filters.categoryId # NoFilter
            THEN set(q1, "category_id", "eq", filters.categoryId) ELSE q1
      q3 == IF filters.location # NoFilter
            THEN set(q2, "location", "ilike", filters.location) ELSE q2
      q4 == IF filters.minPrice # Undefined
            THEN set(q3, "price", "gte", filters.minPrice) ELSE q3
      q5 == IF filters.maxPrice # Undefined
            THEN set(q4, "price", "lte", filters.maxPrice) ELSE q4
      q6 == IF filters.search # NoFilter
            THEN set(q5, "or", "ilike", filters.search) ELSE q5
      q7 == set(q6, "is_deleted", "eq", "false")
      q8 == set(q7, "order", "", "created_at.desc")
      offset == (page - 1) * limit
      q9 == set(q8, "limit", "", limit)
  IN set(q9, "offset", "", offset)

\* The columns of the rows that the filters address, as mockData.ts gives
\* them for activity-1..activity-5: location in lower case (ilike ignores
\* case), text the search terms that occur in the title or the description.
rowFields(id) ==
  CASE id = 1 -> [type |-> "ACTIVITY", category_id |-> "1",
                  location |-> "helsinki", price |-> 15, text |-> {"yoga"}]
    [] id = 2 -> [type |-> "EVENT", category_id |-> "3",
                  location |-> "tampere", price |-> 45, text |-> {"ceramics"}]
    [] id = 3 -> [type |-> "COMPETITION", category_id |-> "1",
                  location |-> "turku", price |-> 0, text |-> {"tournament"}]
    [] id = 4 -> [type |-> "CLUB", category_id |-> "4",
                  location |-> "espoo", price |-> 80, text |-> {"python"}]
    [] id = 5 -> [type |-> "COMPETITION", category_id |-> "5",
                  location |-> "vantaa", price |-> 25, text |-> {"tournament"}]
    [] OTHER  -> [type |-> "ACTIVITY", category_id |-> "1",
                  location |-> "", price |-> 0, text |-> {}]

\* One constraint of a query applied to one row by the remote table.
satisfies(row, p) ==
  CASE p.key = "type"        -> rowFields(row.id).type = p.arg
    [] p.key = "category_id" -> rowFields(row.id).category_id = p.arg
    [] p.key = "location"    -> rowFields(row.id).location = p.arg
    [] p.key = "price"       -> IF p.op = "gte"
                                THEN rowFields(row.id).price >= p.arg
                                ELSE rowFields(row.id).price <= p.arg
    [] p.key = "or"          -> p.arg \in rowFields(row.id).text
    [] p.key = "is_deleted"  -> ~row.isDeleted
    [] OTHER                 -> TRUE

\* The remote table answering the queryParams: the rows that satisfy every
\* constraint, ordered, cut to offset/limit, with the matching count.
apiClientGetParams(rows, params) ==
  LET arg(key) == params[CHOOSE i \in 1..Len(params) : params[i].key = key].arg
      matches(row) == \A i \in 1..Len(params) : satisfies(row, params[i])
      matching == SelectSeq(rows, matches)
      ordered == IF has(params, "order") THEN orderByCreatedDesc(matching) ELSE matching
  IN [data |-> slice(ordered, arg("offset"), arg("offset") + arg("limit")),
      total |-> Len(matching)]

\* getActivities with the filters it was given.
getActivitiesFiltered(rows, filters, page, limit) ==
  LET response == apiClientGetParams(rows, getActivitiesParams(filters, page, limit))
      acts == [i \in 1..Len(response.data) |-> transformRawActivity(response.data[i])]
  IN Outcome("", rows, acts, paginationOf(page, limit, response.total), NoActivity)

SearchTerms      == {NoFilter, "yoga"}
TypeFilters      == {NoFilter, "COMPETITION"}
CategoryFilters  == {NoFilter, "1"}
LocationFilters  == {NoFilter, "turku"}
MinPrices        == {Undefined, 0, 20}
MaxPrices        == {Undefined, 30}
QueryLimits      == {2}

FilterSets ==
  { ActivityFilters(s, t, c, l, lo, hi) :
      s \in SearchTerms, t \in TypeFilters, c \in CategoryFilters,
      l \in LocationFilters, lo \in MinPrices, hi \in MaxPrices }

\* getActivities(filters, page, limit): the query leaves and is answered.
GetActivitiesFiltered ==
  \E filters \in FilterSets, page \in Pages, limit \in QueryLimits :
    LET out == getActivitiesFiltered(mockActivities, filters, page, limit)
    IN /\ sentQuery' = [filters |-> filters,
                        params |-> getActivitiesParams(filters, page, limit)]
       /\ lastResult' = Result("getActivities", 0, "", FALSE, out)
       /\ UNCHANGED <<mockActivities, now, authVars, gateVars, pageVars,
                      sessVars, formVars, viewVars>>

NextQuery == GetActivitiesFiltered \/ DeleteActivity

SpecQuery == InitDirectory /\ [][NextQuery]_vars

(***************************************************************************)
(* SpecStats: getUserActivityStats between creations and deletions         *)
(***************************************************************************)
\* getMonth()/getFullYear() of a clock reading: the initial records were
\* created at readings 1..4 (January 2024) and 5 (February 2024); readings
\* from 6 on belong to the month of the session.
calendarMonth(t) == IF t <= 4 THEN 1 ELSE IF t = 5 THEN 2 ELSE 3


\* getUserActivityStats whose active count ignores the deletion mark.
getUserActivityStats_CountAll(acts, organizerId, t, random) ==
  LET mine(a) == a.userId = organizerId \/ organizerId = "current-user"
      userActivities == SelectSeq(acts, mine)
      activities_ == IF Len(userActivities) > 0 THEN userActivities ELSE acts
      thisMonth(a) == calendarMonth(a.createdAt) = calendarMonth(t)
  IN [total_activities |-> Len(activities_),
      active_activities |-> Len(activities_),
      pending_activities |-> 2,
      total_participants |-> random,
      this_month_activities |-> Len(SelectSeq(activities_, thisMonth))]

\* getUserActivityStats (mock branch); random stands for
\* Math.floor(Math.random() * 200) + 50.
getUserActivityStats(acts, organizerId, t, random) ==
  LET mine(a) == a.userId = organizerId \/ organizerId = "current-user"
      userActivities == SelectSeq(acts, mine)
      activities_ == IF Len(userActivities) > 0 THEN userActivities ELSE acts
      live(a) == ~a.isDeleted
      thisMonth(a) == calendarMonth(a.createdAt) = calendarMonth(t)
  IN [total_activities |-> Len(activities_),
      active_activities |-> Len(SelectSeq(activities_, live)),
      pending_activities |-> 2,
      total_participants |-> random,
      this_month_activities |-> Len(SelectSeq(activities_, thisMonth))]

\* Organizers stats are asked for: owners of records, one without records,
\* and the literal that stands for whoever is signed in.
StatsCallers == {"user-1", "user-2", "user-3", "current-user"}

\* Values Math.floor(Math.random() * 200) + 50 may take (the two extremes).
RandomParticipants == {50, 249}

\* The record of a completed getUserActivityStats.
StatsResult(organizerId, stats) ==
  [op |-> "getUserActivityStats", id |-> 0, organizerId |-> organizerId,
   wasDeleted |-> FALSE, err |-> "", items |-> << >>,
   pagination |-> NoPagination, value |-> NoActivity, stats |-> stats]

GetUserActivityStats ==
  \E organizerId \in StatsCallers, random \in RandomParticipants :
    /\ lastResult' = StatsResult(organizerId,
                       getUserActivityStats(mockActivities, organizerId, now, random))
    /\ UNCHANGED <<mockActivities, now, authVars, gateVars, pageVars,
                   sessVars, formVars, viewVars, netVars>>

NextStats ==
  \/ Tick
  \/ CreateActivity
  \/ DeleteActivity
  \/ GetUserActivityStats

SpecStats == InitDirectory /\ [][NextStats]_vars

(***************************************************************************)
(* Properties of the Authorization Gate (checked under SpecGate)           *)
(***************************************************************************)
Rendered == gateResult # "NotRendered"

\* The gate was rendered, not loading, for an identity with an enum role on a
\* requiredRoles prop over the enum roles.
DecidedOnRoles ==
  /\ Rendered
  /\ ~loading
  /\ identity # NoProfile
  /\ identity.role \in Roles
  /\ requiredRole = NoRole
  /\ requiredRoles \subseteq Roles

\* C1 as stated: with isLoading false and an identity present the gate renders
\* exactly when requiredRoles is empty, or the role is admin, or the role is
\* organizer and EVERY required role lies in {organizer, user}, or the role is
\* a member of requiredRoles; otherwise it redirects to /unauthorized.
C1_AllowedAsStated ==
  DecidedOnRoles =>
    /\ gateResult \in {"Render", "RedirectToUnauthorized"}
    /\ gateResult = "Render" <=>
         \/ requiredRoles = {}
         \/ identity.role = "admin"
         \/ identity.role = "organizer" /\ requiredRoles \subseteq {"organizer", "user"}
         \/ identity.role \in requiredRoles

\* C1 amended: as above, with the organizer clause reading "SOME required role
\* lies in {organizer, user}".
C1_Allowed ==
  DecidedOnRoles =>
    /\ gateResult \in {"Render", "RedirectToUnauthorized"}
    /\ gateResult = "Render" <=>
         \/ requiredRoles = {}
         \/ identity.role = "admin"
         \/ identity.role = "organizer" /\ requiredRoles \cap {"organizer", "user"} # {}
         \/ identity.role \in requiredRoles

\* An organizer rendered on a route open to users and admins.
C1_Witness ==
  /\ DecidedOnRoles
  /\ identity.role = "organizer"
  /\ requiredRoles = {"user", "admin"}
  /\ gateResult = "Render"

\* C2: a user-role identity (not loading) is redirected to /unauthorized on
\* requiredRoles {organizer}, {admin} and {organizer, admin}, and on the
\* /admin/* route of App (requiredRole = organizer); it is never rendered there.
C2_UserKeptOut ==
  ( /\ Rendered
    /\ ~loading
    /\ identity # NoProfile
    /\ identity.role = "user"
    /\ \/ requiredRole = NoRole
          /\ requiredRoles \in {{"organizer"}, {"admin"}, {"organizer", "admin"}}
       \/ requiredRole = "organizer" )
  => gateResult = "RedirectToUnauthorized"

C2_Witness ==
  /\ Rendered
  /\ ~loading
  /\ identity # NoProfile
  /\ identity.role = "user"
  /\ requiredRole = NoRole
  /\ requiredRoles = {"organizer", "admin"}
  /\ gateResult = "RedirectToUnauthorized"

\* C3 as stated: for an admin identity the gate's result is Render for every
\* set of required roles, whatever the loading flag.
C3_AdminAsStated ==
  ( /\ Rendered
    /\ identity # NoProfile
    /\ identity.role = "admin"
    /\ requiredRole = NoRole
    /\ requiredRoles \subseteq Roles )
  => gateResult = "Render"

\* C3 amended: for an admin identity and isLoading false the gate's result is
\* Render for every set of required roles.
C3_Admin ==
  ( /\ Rendered
    /\ ~loading
    /\ identity # NoProfile
    /\ identity.role = "admin"
    /\ requiredRole = NoRole
    /\ requiredRoles \subseteq Roles )
  => gateResult = "Render"

C3_Witness ==
  /\ Rendered
  /\ ~loading
  /\ identity # NoProfile
  /\ identity.role = "admin"
  /\ requiredRole = NoRole
  /\ requiredRoles = {"user", "organizer"}
  /\ gateResult = "Render"

\* C4: with isLoading false and a null identity the gate returns
\* RedirectToLogin (so not the children) for every set of required roles.
C4_NullToLogin ==
  (Rendered /\ ~loading /\ identity = NoProfile) => gateResult = "RedirectToLogin"

C4_Witness ==
  /\ Rendered
  /\ ~loading
  /\ identity = NoProfile
  /\ requiredRole = NoRole
  /\ requiredRoles = {"user"}
  /\ gateResult = "RedirectToLogin"

\* Position of a role in the hierarchy admin > organizer > user.
Rank(role) ==
  CASE toLowerCase(role) = "admin"     -> 3
    [] toLowerCase(role) = "organizer" -> 2
    [] OTHER                           -> 1

\* C5: the gate is monotone in the role hierarchy: on the same props, when it
\* renders for an identity it renders for every identity of the same or a
\* higher role (user -> organizer -> admin); and an organizer is rendered on
\* requiredRoles {organizer} and on {user}.
C5_Monotone ==
  /\ []( ( /\ DecidedOnRoles
           /\ identity.role = "organizer"
           /\ requiredRoles \in {{"organizer"}, {"user"}} )
         => gateResult = "Render" )
  /\ [][ ( /\ gateResult = "Render"
           /\ ~loading /\ ~loading'
           /\ identity # NoProfile /\ identity' # NoProfile
           /\ Rank(identity.role) <= Rank(identity'.role) )
         => gateResult' = "Render" ]_vars

C5_Witness ==
  /\ DecidedOnRoles
  /\ identity.role = "organizer"
  /\ requiredRoles = {"user"}
  /\ gateResult = "Render"

\* C6: while isLoading is true the gate yields the pending result, whatever
\* the identity and the required roles: no redirect, no children.
C6_LoadingPending ==
  (Rendered /\ loading) => gateResult = "Pending"

C6_Witness ==
  /\ Rendered
  /\ loading
  /\ identity # NoProfile
  /\ identity.role = "user"
  /\ requiredRole = NoRole
  /\ requiredRoles = {"admin"}
  /\ gateResult = "Pending"

(***************************************************************************)
(* Properties of the Activity Directory                                    *)
(***************************************************************************)
\* The stored record a call named (the first with that id).
recordOf(acts, id) == acts[findIndex(acts, id)]

\* A caller id that denotes an admin: the literal the directory accepts, or
\* the id of a user whose role is admin.
denotesAdmin(callerId) ==
  \/ callerId = "admin-user"
  \/ \E u \in mockUsers : u.id = callerId /\ u.role = "admin"

\* C7: once softDelete(id) has succeeded, no listing (list or listForOwner, on
\* any page and limit) returns the record of that id, while getById(id) still
\* returns it with isDeleted = true (checked under SpecDirectory).
C7_DeletedHiddenFromListings ==
  /\ lastResult.op \in {"getUserActivities", "getActivities"} =>
       \A k \in 1..Len(lastResult.items) :
         ~wasDeletedAt(mockActivities, lastResult.items[k])
  /\ (lastResult.op = "getActivityById" /\ lastResult.wasDeleted) =>
       /\ lastResult.err = ""
       /\ lastResult.value.id = lastResult.id
       /\ lastResult.value.isDeleted

\* C8: softDelete by a caller who is neither the record's organizer nor an
\* admin fails with PermissionDenied and leaves the whole collection as it
\* was, isDeleted and updatedAt of the record included (SpecDirectory).
C8_DeniedDeleteChangesNothing ==
  [][ ( /\ now' = now
        /\ lastResult'.op = "deleteActivity"
        /\ findIndex(mockActivities, lastResult'.id) # 0
        /\ recordOf(mockActivities, lastResult'.id).userId # lastResult'.organizerId
        /\ ~denotesAdmin(lastResult'.organizerId) )
      => ( /\ lastResult'.err = "PermissionDenied"
           /\ mockActivities' = mockActivities ) ]_vars

C8_Witness ==
  /\ lastResult.op = "deleteActivity"
  /\ lastResult.id = 1
  /\ lastResult.organizerId = "user-3"
  /\ lastResult.err = "PermissionDenied"
  /\ ~recordOf(mockActivities, 1).isDeleted
  /\ recordOf(mockActivities, 1).updatedAt = 1
  /\ now = MaxTime

\* C9: softDelete issued by the Activities page for an identity whose role is
\* admin, on an existing record owned by another user, succeeds: no
\* PermissionDenied, and the record has isDeleted = true (SpecPage).
C9_AdminDeletesAnyRecord ==
  ( /\ lastResult.op = "deleteActivity"
    /\ identity # NoProfile
    /\ identity.role = "admin"
    /\ lastResult.organizerId = identity.id
    /\ findIndex(mockActivities, lastResult.id) # 0
    /\ recordOf(mockActivities, lastResult.id).userId # identity.id )
  => ( /\ lastResult.err = ""
       /\ recordOf(mockActivities, lastResult.id).isDeleted )

\* C10: soft delete is idempotent: a successful softDelete leaves the record
\* with isDeleted = true, and softDelete(id, owner) on a record that is already
\* soft-deleted succeeds, keeps isDeleted = true and does not move updatedAt
\* backwards (SpecDirectory).
C10_DeleteIdempotent ==
  /\ []( (lastResult.op = "deleteActivity" /\ lastResult.err = "")
         => wasDeletedAt(mockActivities, lastResult.id) )
  /\ [][ ( /\ now' = now
           /\ lastResult'.op = "deleteActivity"
           /\ wasDeletedAt(mockActivities, lastResult'.id)
           /\ recordOf(mockActivities, lastResult'.id).userId = lastResult'.organizerId )
         => ( /\ lastResult'.err = ""
              /\ wasDeletedAt(mockActivities', lastResult'.id)
              /\ recordOf(mockActivities', lastResult'.id).updatedAt
                   >= recordOf(mockActivities, lastResult'.id).updatedAt ) ]_vars

\* A second softDelete by the owner, later than the first, has succeeded.
C10_Witness ==
  /\ lastResult.op = "deleteActivity"
  /\ lastResult.id = 1
  /\ lastResult.organizerId = "user-1"
  /\ lastResult.wasDeleted
  /\ lastResult.err = ""
  /\ recordOf(mockActivities, 1).isDeleted
  /\ recordOf(mockActivities, 1).updatedAt = MaxTime

\* C11: update(id, data, callerId) by a non-admin caller whose id differs from
\* the stored record's organizerId fails with PermissionDenied, and update of
\* an id no record has fails with NotFound; in both cases the collection is
\* left exactly as it was (SpecDirectory).
C11_UpdateRefusedChangesNothing ==
  [][ ( /\ now' = now
        /\ lastResult'.op = "updateActivity" )
      => /\ ( /\ findIndex(mockActivities, lastResult'.id) # 0
              /\ recordOf(mockActivities, lastResult'.id).userId # lastResult'.organizerId
              /\ ~denotesAdmin(lastResult'.organizerId) )
            => ( /\ lastResult'.err = "PermissionDenied"
                 /\ mockActivities' = mockActivities )
         /\ (\A i \in 1..Len(mockActivities) : mockActivities[i].id # lastResult'.id)
            => ( /\ lastResult'.err = "NotFound"
                 /\ mockActivities' = mockActivities ) ]_vars

\* A stranger's update of activity-1 was refused and the record kept its fields.
C11_Witness ==
  /\ lastResult.op = "updateActivity"
  /\ lastResult.id = 1
  /\ lastResult.organizerId = "user-3"
  /\ lastResult.err = "PermissionDenied"
  /\ recordOf(mockActivities, 1).title = "t1"
  /\ recordOf(mockActivities, 1).updatedAt = 1
  /\ now = MaxTime


(***************************************************************************)
(* Properties of the listings                                              *)
(***************************************************************************)
\* The last completed call returned a Page.
ReturnedPage == lastResult.op \in {"getUserActivities", "getActivities"}

\* C12: every Page returned by list and listForOwner, for every collection
\* size, page and limit >= 1, has totalPages = ceil(total/limit), hasNext =
\* (page < totalPages), hasPrevious = (page > 1) and at most limit items
\* (SpecListing).
C12_PageFields ==
  (ReturnedPage /\ lastResult.pagination.limit >= 1) =>
    LET p == lastResult.pagination IN
    /\ p.totalPages >= 0
    /\ p.totalPages * p.limit >= p.total
    /\ (p.totalPages - 1) * p.limit < p.total \/ (p.totalPages = 0 /\ p.total = 0)
    /\ p.hasNext = (p.page < p.totalPages)
    /\ p.hasPrevious = (p.page > 1)
    /\ Len(lastResult.items) <= p.limit

\* Four records listed three to a page: two pages, and page 1 has a next page.
C12_Witness ==
  /\ lastResult.op = "getUserActivities"
  /\ lastResult.pagination.total = 4
  /\ lastResult.pagination.limit = 3
  /\ lastResult.pagination.page = 1
  /\ lastResult.pagination.totalPages = 2
  /\ lastResult.pagination.hasNext
  /\ ~lastResult.pagination.hasPrevious
  /\ Len(lastResult.items) = 3

\* C13: for all total >= 0 and limit >= 1 the Page returned for page number
\* page holds min(limit, total - (page-1)*limit) items, clamped to >= 0, total
\* being the Page's total: pages past the last are empty and the last page
\* holds the remainder (SpecListing).
C13_ItemsOnPage ==
  (ReturnedPage /\ lastResult.pagination.limit >= 1) =>
    LET p == lastResult.pagination
        rest == p.total - (p.page - 1) * p.limit
    IN Len(lastResult.items) =
         (IF rest <= 0 THEN 0 ELSE IF rest < p.limit THEN rest ELSE p.limit)

\* The last page of four records listed three to a page holds the one left over.
C13_Witness ==
  /\ lastResult.op = "getUserActivities"
  /\ lastResult.pagination.total = 4
  /\ lastResult.pagination.limit = 3
  /\ lastResult.pagination.page = 2
  /\ Len(lastResult.items) = 1


\* C14: create assigns a new id: the ids of the records are pairwise distinct
\* in every reachable state of the collection, also when two create calls are
\* in flight at the same time (SpecCreate).
C14_IdsDistinct ==
  \A i, j \in 1..Len(mockActivities) :
    i # j => mockActivities[i].id # mockActivities[j].id


\* C15: listForOwner(o, page, limit) is restricted to the owner: when some
\* record has organizerId = o, the items are the requested page of the records
\* of o alone (so every item has organizerId = o) and total is the number of
\* such records; only when no record has organizerId = o are they the page of
\* the unfiltered collection (SpecDirectory).
C15_OwnerListing ==
  [][ ( /\ lastResult' # lastResult
        /\ lastResult'.op = "getUserActivities" )
      => LET o == lastResult'.organizerId
             p == lastResult'.pagination
             ownedBy(a) == a.userId = o
             owned == SelectSeq(mockActivities, ownedBy)
             listed == IF Len(owned) > 0 THEN owned ELSE mockActivities
             first == (p.page - 1) * p.limit + 1
             last == IF p.page * p.limit < Len(listed)
                     THEN p.page * p.limit ELSE Len(listed)
         IN /\ p.total = Len(listed)
            /\ lastResult'.items = ids(SubSeq(listed, first, last)) ]_vars

\* After create by user-3, who owned no record, listForOwner(user-3, 1, 5)
\* returned the created record alone.
C15_Witness ==
  /\ lastResult.op = "getUserActivities"
  /\ lastResult.organizerId = "user-3"
  /\ lastResult.pagination.page = 1
  /\ lastResult.pagination.limit = 5
  /\ Len(lastResult.items) = 1
  /\ recordOf(mockActivities, lastResult.items[1]).userId = "user-3"
  /\ lastResult.pagination.total = 1
  /\ lastResult.pagination.totalPages = 1
  /\ ~lastResult.pagination.hasNext


(***************************************************************************)
(* Properties of the Session Store (checked under SpecSession)             *)
(***************************************************************************)
\* C16: signOut always returns the session to Unauthenticated and clears the
\* identity: while signOut is the last call to have completed (no signIn or
\* signUp has completed since), the identity exposed by the store is null,
\* whatever the provider answered and whatever timer or listener was pending.
C16_SignedOutStaysNull ==
  lastAuth.op = "signOut" => identity = NoProfile

\* C17: a signIn that the provider answers with an error, starting from a
\* null identity, ends with the identity null and loading false; and the
\* identity becomes non-null only as the outcome of a signIn or signUp that
\* the provider accepted (the step in which its profile arrives).
C17_StateMachine ==
  /\ [][ ( /\ Len(authCalls') < Len(authCalls)
           /\ lastAuth'.op = "signIn"
           /\ lastAuth'.err # ""
           /\ identity = NoProfile )
         => (identity' = NoProfile /\ ~loading') ]_vars
  /\ [][ (identity = NoProfile /\ identity' # NoProfile)
         => ( /\ profileFetches' # profileFetches
              /\ lastAuth.op \in {"signIn", "signUp"}
              /\ lastAuth.err = "" ) ]_vars


(***************************************************************************)
(* Properties of Pagination                                                *)
(***************************************************************************)
\* C18: for every window size w >= 1, totalPages >= 1 and current page in
\* 1..totalPages, Pagination shows exactly the consecutive pages start..end
\* with start = max(1, current - floor(w/2)), end = min(totalPages,
\* start + w - 1), then start = max(1, end - w + 1); the window lies within
\* 1..totalPages, contains the current page and has min(w, totalPages)
\* entries (SpecPagination).
C18_Window ==
  paginationView # NoView =>
    LET w == paginationView.maxPageButtons
        t == paginationView.totalPages
        c == paginationView.currentPage
        shown == paginationView.pages
        start0 == IF c - (w \div 2) > 1 THEN c - (w \div 2) ELSE 1
        end == IF start0 + w - 1 < t THEN start0 + w - 1 ELSE t
        start == IF end - w + 1 > 1 THEN end - w + 1 ELSE 1
    IN /\ Len(shown) = end - start + 1
       /\ \A k \in 1..Len(shown) : shown[k] = start + k - 1
       /\ \A k \in 1..Len(shown) : shown[k] \in 1..t
       /\ \E k \in 1..Len(shown) : shown[k] = c
       /\ Len(shown) = (IF w < t THEN w ELSE t)

\* On the last of seven pages a window of five shows 3..7.
C18_Witness ==
  /\ paginationView.maxPageButtons = 5
  /\ paginationView.totalPages = 7
  /\ paginationView.currentPage = 7
  /\ paginationView.pages = <<3, 4, 5, 6, 7>>


(***************************************************************************)
(* Properties of the Activities page (checked under SpecPage)              *)
(***************************************************************************)
\* C19: Previous is disabled at page 1 and Next at totalPages: in every state
\* of the Activities page with 1 <= currentPage <= totalPages the enabled
\* pagination controls lead only to pages within 1..totalPages, and no step
\* (page click, search, reload) takes currentPage from there to a value
\* outside 1..totalPages.
C19_PageWithinBounds ==
  /\ []( (1 <= currentPage /\ currentPage <= totalPages)
         => /\ pageControls(currentPage, totalPages) \subseteq 1..totalPages
            /\ (currentPage = 1 => 0 \notin pageControls(currentPage, totalPages))
            /\ (currentPage = totalPages
                  => totalPages + 1 \notin pageControls(currentPage, totalPages)) )
  /\ [][ (1 <= currentPage /\ currentPage <= totalPages /\ currentPage' # currentPage)
         => (1 <= currentPage' /\ currentPage' <= totalPages) ]_vars

\* The page shows its second and last page with the pagination controls.
C19_Witness ==
  /\ currentPage = 2
  /\ totalPages = 2
  /\ ~isLoading
  /\ Len(activities) > 0
  /\ pending = << >>


(***************************************************************************)
(* Properties of the Login and SignUp forms (checked under SpecForms)      *)
(***************************************************************************)
\* The submitted form fails one of the checks the claim lists for it.
FailsClientCheck(s) ==
  \/ /\ s.form = "login"
     /\ \/ s.data.email = << >>
        \/ s.data.password = << >>
        \/ ~emailRegexTest(s.data.email)
  \/ /\ s.form = "signup"
     /\ \/ trim(s.data.fullName) = << >>
        \/ trim(s.data.email) = << >>
        \/ s.data.password = << >>
        \/ s.data.confirmPassword = << >>
        \/ ~emailRegexTest(s.data.email)
        \/ Len(s.data.password) < 8
        \/ ~hasDigit(s.data.password)
        \/ ~hasSpecialCharacter(s.data.password)
        \/ s.data.confirmPassword # s.data.password
        \/ ~s.data.agreeToTerms

\* C20: a ValidationError is never sent to the backend: submitting a Login or
\* SignUp form that fails a client-side check (missing required field,
\* malformed email, password shorter than 8 or without a digit or a special
\* character, mismatched confirmation, terms not accepted) starts no signIn or
\* signUp of the Session Store and no provider call, and leaves the session
\* state as it was.
C20_InvalidFormNotSent ==
  [][ (submitted' # submitted /\ FailsClientCheck(submitted'))
      => /\ submitted'.errors # {}
         /\ UNCHANGED <<user, profile, loading, authCalls, profileFetches, lastAuth>>
    ]_vars

\* A SignUp form valid but for the terms was submitted, and nothing is in flight.
C20_Witness ==
  /\ submitted.form = "signup"
  /\ submitted.data = [ValidSignUp EXCEPT !.agreeToTerms = FALSE]
  /\ submitted.errors = {"agreeToTerms"}
  /\ authCalls = << >>
  /\ lastAuth = NoAuthResult


(***************************************************************************)
(* Properties of concurrent and successful updates                         *)
(***************************************************************************)
\* C21: concurrent updates by the owner to the same Activity all succeed and
\* the later write wins: whenever an update by the owner completes, whatever
\* other updates are in flight or have completed, it is not rejected and the
\* stored record then carries exactly the form data of that update; so after
\* both calls the record carries the data of the one that completed last
\* (SpecUpdate).
C21_LastWriteWins ==
  [][ \A i \in 1..Len(pending) :
        ( /\ pending[i].kind = "update"
          /\ pending' = without(pending, i)
          /\ lastResult'.op = "updateActivity"
          /\ lastResult'.organizerId = pending[i].userId
          /\ mockActivities' # mockActivities \/ lastResult' # lastResult
          /\ findIndex(mockActivities, pending[i].id) # 0
          /\ recordOf(mockActivities, pending[i].id).userId = pending[i].userId )
        => ( /\ lastResult'.err = ""
             /\ recordOf(mockActivities', pending[i].id).title = pending[i].title
             /\ lastResult'.value.title = pending[i].title ) ]_vars

\* One update by the owner has completed and stored "b" while another update
\* by the owner, carrying "a", is still in flight.
C21_Witness ==
  /\ pending = <<UpdateCall(1, "user-1", "a")>>
  /\ lastResult.op = "updateActivity"
  /\ lastResult.organizerId = "user-1"
  /\ lastResult.err = ""
  /\ recordOf(mockActivities, 1).title = "b"


\* C30: a successful update(id, data, owner) changes only the targeted record
\* and leaves that record's id, organizerId, createdAt and isDeleted as they
\* were; every other record, and the number and order of the records, are
\* unchanged (SpecDirectory).
C30_UpdateFrame ==
  [][ ( /\ now' = now
        /\ lastResult'.op = "updateActivity"
        /\ lastResult'.err = ""
        /\ mockActivities' # mockActivities \/ lastResult' # lastResult )
      => LET k == findIndex(mockActivities, lastResult'.id) IN
         /\ k # 0
         /\ Len(mockActivities') = Len(mockActivities)
         /\ \A j \in 1..Len(mockActivities) :
              j # k => mockActivities'[j] = mockActivities[j]
         /\ mockActivities'[k].id = mockActivities[k].id
         /\ mockActivities'[k].userId = mockActivities[k].userId
         /\ mockActivities'[k].createdAt = mockActivities[k].createdAt
         /\ mockActivities'[k].isDeleted = mockActivities[k].isDeleted ]_vars

\* The owner has updated activity-1 after soft-deleting it: it is still deleted.
C30_Witness ==
  /\ lastResult.op = "updateActivity"
  /\ lastResult.id = 1
  /\ lastResult.err = ""
  /\ lastResult.wasDeleted
  /\ recordOf(mockActivities, 1).title = "a"
  /\ recordOf(mockActivities, 1).isDeleted
  /\ recordOf(mockActivities, 1).createdAt = 1
  /\ Len(mockActivities) = Len(InitialActivities)


\* C22: the items of every Page returned by list and by listForOwner are
\* ordered by creation time descending: of two consecutive items the first
\* was created no earlier than the second, also after records have been
\* created during the session (SpecDirectory).
C22_NewestFirst ==
  ReturnedPage =>
    \A k \in 1..(Len(lastResult.items) - 1) :
      recordOf(mockActivities, lastResult.items[k]).createdAt
        >= recordOf(mockActivities, lastResult.items[k + 1]).createdAt


(***************************************************************************)
(* Properties of getActivities with filters (checked under SpecQuery)      *)
(***************************************************************************)
\* The constraint named key with operator op and argument arg is in the query.
Carries(params, key, op, arg) ==
  \E i \in 1..Len(params) :
    params[i].key = key /\ params[i].op = op /\ params[i].arg = arg

\* C23: list applies every filter it is given: the query sent carries a
\* constraint for each supplied filter (type, categoryId, location, minPrice,
\* maxPrice, search), and the activities returned all lie within the supplied
\* price bounds and contain the supplied search term.
C23_EveryFilterApplied ==
  Len(sentQuery.params) > 0 =>
    LET f == sentQuery.filters
        q == sentQuery.params
    IN /\ f.type # NoFilter => Carries(q, "type", "eq", f.type)
       /\ f.categoryId # NoFilter => Carries(q, "category_id", "eq", f.categoryId)
       /\ f.location # NoFilter => Carries(q, "location", "ilike", f.location)
       /\ f.minPrice # Undefined => Carries(q, "price", "gte", f.minPrice)
       /\ f.maxPrice # Undefined => Carries(q, "price", "lte", f.maxPrice)
       /\ f.search # NoFilter => Carries(q, "or", "ilike", f.search)
       /\ \A k \in 1..Len(lastResult.items) :
            LET row == rowFields(lastResult.items[k])
            IN /\ f.minPrice # Undefined => row.price >= f.minPrice
               /\ f.maxPrice # Undefined => row.price <= f.maxPrice
               /\ f.search # NoFilter => f.search \in row.text


\* C24: the Table of the Activities page shows the loading placeholder while
\* a fetch is outstanding: whenever a loadActivities or delete request issued
\* by the page has not settled, isLoading is true.
C24_LoadingWhileOutstanding ==
  pending # << >> => isLoading


C26_UsersRouteAdminOnly ==
  ( /\ requiredRole = RouteProps("/admin/users").requiredRole
    /\ requiredRoles = RouteProps("/admin/users").requiredRoles
    /\ gateResult \notin {"NotRendered", "Pending"}
    /\ identity.role \in {"null", "user", "organizer"} )
  => gateResult \in {"RedirectToUnauthorized", "RedirectToLogin"}


\* C28: whenever the identity exposed by the Session Store is non-null, a
\* session user exists and identity.id is that user's non-empty id; a profile
\* fetch that resolves after a sign-out does not bring an identity back.
C28_IdentityHasUser ==
  identity # NoProfile =>
    /\ user # NoUser
    /\ identity.id = user
    /\ identity.id # ""


\* A step of updateProfile: the call starts, or its provider call is answered.
UpdateProfileStep ==
  \/ /\ Len(authCalls') = Len(authCalls) + 1
     /\ authCalls'[Len(authCalls')].op = "updateProfile"
  \/ /\ Len(authCalls') = Len(authCalls) - 1
     /\ lastAuth'.op = "updateProfile"

\* C25: updateProfile mutates Identity fields in place without a state
\* transition: on an Authenticated session (identity present, not loading)
\* every step of the call, whether it succeeds or fails, leaves the session
\* Authenticated with the same id and role and not loading, so a gate that
\* rendered before the step renders after it.
C25_UpdateWithoutTransition ==
  [][ ( /\ UpdateProfileStep
        /\ identity # NoProfile
        /\ ~loading )
      => ( /\ identity' # NoProfile
           /\ identity'.id = identity.id
           /\ identity'.role = identity.role
           /\ ~loading'
           /\ ( ProtectedRoute(identity, loading, requiredRole, requiredRoles) = "Render"
                => ProtectedRoute(identity', loading', requiredRole, requiredRoles) = "Render" ) )
    ]_vars


(***************************************************************************)
(* Properties of getUserActivityStats (checked under SpecStats)            *)
(***************************************************************************)
\* The records stats(organizerId) aggregates over: the organizer's, or all
\* of them when the organizer has none.
AggregatedIndexes(acts, organizerId) ==
  LET own == {i \in 1..Len(acts) :
                acts[i].userId = organizerId \/ organizerId = "current-user"}
  IN IF own # {} THEN own ELSE 1..Len(acts)

\* C27: stats(organizerId) aggregates over the organizer's records, or over
\* all records when the organizer has none: total is their count and active
\* the number of them with isDeleted = false, so 0 <= active <= total after
\* any sequence of creations and deletions; and a successful softDelete of
\* one of the organizer's live records lowers active by one and leaves total
\* unchanged.
C27_StatsAggregate ==
  /\ [](lastResult.op = "getUserActivityStats" =>
          LET over == AggregatedIndexes(mockActivities, lastResult.organizerId)
              s == lastResult.stats
          IN /\ s.total_activities = Cardinality(over)
             /\ s.active_activities =
                  Cardinality({i \in over : ~mockActivities[i].isDeleted})
             /\ 0 <= s.active_activities
             /\ s.active_activities <= s.total_activities)
  /\ [][ ( /\ lastResult'.op = "deleteActivity"
           /\ mockActivities' # mockActivities
           /\ ~lastResult'.wasDeleted )
         => LET owner == recordOf(mockActivities, lastResult'.id).userId
                before == getUserActivityStats(mockActivities, owner, now, 50)
                after == getUserActivityStats(mockActivities', owner, now', 50)
            IN /\ after.active_activities = before.active_activities - 1
               /\ after.total_activities = before.total_activities ]_vars

\* Stats were returned for user-1 after one of its four records was deleted.
C27_Witness ==
  /\ lastResult.op = "getUserActivityStats"
  /\ lastResult.organizerId = "user-1"
  /\ lastResult.stats.total_activities = 4
  /\ lastResult.stats.active_activities = 3
  /\ wasDeletedAt(mockActivities, 1)

====
